---------------------------- MODULE Spec2Model ----------------------------
(***************************************************************************)
(* Model of calender.py (student calendar): the event extraction engine    *)
(* (iter_lines, smart_title, _abs_date, parse_dates, extract_events) and   *)
(* the module-level pipeline that filters, merges the institutional        *)
(* calendar, builds the table and hands event lists to the calendar        *)
(* widget, make_ics and make_pdf.                                          *)
(*                                                                         *)
(* Text is modelled at the level of the lexical items the regular          *)
(* expressions of the source recognise.  A line is a sequence of tokens,   *)
(* each token a record carrying the fields the regular expression would    *)
(* capture; the text of a line is the tokens' texts joined by one space.   *)
(* Dates are records [y, m, d] as in datetime.date.                        *)
(***************************************************************************)
EXTENDS Integers, Sequences, FiniteSets, TLC

(***************************************************************************)
(* datetime.date arithmetic                                                *)
(***************************************************************************)
IsLeap(y) == (y % 4 = 0) /\ ((y % 100 # 0) \/ (y % 400 = 0))

DaysInMonth(y, m) ==
  IF m = 2 THEN (IF IsLeap(y) THEN 29 ELSE 28)
  ELSE IF m \in {4, 6, 9, 11} THEN 30 ELSE 31

DaysBeforeYear(y) ==
  (y - 1) * 365 + ((y - 1) \div 4) - ((y - 1) \div 100) + ((y - 1) \div 400)

RECURSIVE DaysBeforeMonth(_, _)
DaysBeforeMonth(y, m) ==
  IF m <= 1 THEN 0 ELSE DaysBeforeMonth(y, m - 1) + DaysInMonth(y, m - 1)

NoDate == [y |-> 0, m |-> 0, d |-> 0]

MkDate(y, m, d) == [y |-> y, m |-> m, d |-> d]

\* date(y, m, d) raises ValueError unless this holds
ValidDate(y, m, d) ==
  /\ y \in 1..9999
  /\ m \in 1..12
  /\ d \in 1..DaysInMonth(y, m)

ToOrdinal(dt) == DaysBeforeYear(dt.y) + DaysBeforeMonth(dt.y, dt.m) + dt.d

FromOrdinal(n) ==
  LET y  == CHOOSE yy \in ((n \div 366) .. ((n \div 365) + 1)) :
              /\ yy >= 1
              /\ DaysBeforeYear(yy) < n
              /\ n <= DaysBeforeYear(yy + 1)
      r  == n - DaysBeforeYear(y)
      m  == CHOOSE mm \in 1..12 :
              /\ DaysBeforeMonth(y, mm) < r
              /\ r <= DaysBeforeMonth(y, mm) + DaysInMonth(y, mm)
  IN  MkDate(y, m, r - DaysBeforeMonth(y, m))

\* date comparison: lexicographic on (year, month, day)
DateLT(a, b) ==
  \/ a.y < b.y
  \/ a.y = b.y /\ a.m < b.m
  \/ a.y = b.y /\ a.m = b.m /\ a.d < b.d

DateLE(a, b) == a = b \/ DateLT(a, b)

\* date + timedelta(weeks=w, days=dd)
AddDays(dt, n) == FromOrdinal(ToOrdinal(dt) + n)

(***************************************************************************)
(* Tokens: the lexical items the regular expressions of the source see     *)
(***************************************************************************)
\* "week 3", "Wk 3": a WEEK_RE match, n the captured 1-2 digit number
WeekTok(word, n) == [kind |-> "week", word |-> word, n |-> n]
\* a textual date: form "md" = "Jan 15[, 2024]", "dm" = "15 Jan[ 2024]",
\* "mdth" = "Jan 15th[, 2024]" (the three alternatives of ABS_RE)
AbsTok(form, mon, day, hasYr, yr) ==
  [kind |-> "abs", form |-> form, mon |-> mon, day |-> day,
   hasYr |-> hasYr, yr |-> yr]
\* a digit-delimited date: three digit runs (value, number of digits)
NumTok(sep, v1, n1, v2, n2, v3, n3) ==
  [kind |-> "num", sep |-> sep, f |-> << <<v1, n1>>, <<v2, n2>>, <<v3, n3>> >>]
\* a keyword a TITLE_RULES entry matches: rule = position in TITLE_RULES
RuleTok(rule, n) == [kind |-> "rule", rule |-> rule, n |-> n]
\* a "fall term" / "winter session" phrase matched by SEMESTER_PATTERNS
SemTok(pat) == [kind |-> "sem", pat |-> pat]
\* a leading bullet / dash character
BulletTok == [kind |-> "bullet"]
\* any other text
WordTok(text) == [kind |-> "word", text |-> text]

MonthAbbr ==
  <<"Jan", "Feb", "Mar", "Apr", "May", "Jun",
    "Jul", "Aug", "Sep", "Oct", "Nov", "Dec">>

\* decimal rendering of v in exactly n digits (leading zeros)
RECURSIVE Pad(_, _)
Pad(v, n) ==
  IF n <= 1 THEN ToString(v % 10)
  ELSE Pad(v \div 10, n - 1) \o ToString(v % 10)

RuleWord == <<"TT", "Quiz ", "Activity ", "PCA ", "Scavenger",
              "Assignment ", "Project ", "Midterm", "Final exam">>
RuleHasNumber == {1, 2, 3, 4, 6, 7}
SemWord == <<"Fall term", "Winter term", "Summer term">>

TokText(t) ==
  CASE t.kind = "week"   -> t.word \o " " \o ToString(t.n)
    [] t.kind = "abs"    ->
         (IF t.form = "md" THEN MonthAbbr[t.mon] \o " " \o ToString(t.day)
          ELSE IF t.form = "dm" THEN ToString(t.day) \o " " \o MonthAbbr[t.mon]
          ELSE MonthAbbr[t.mon] \o " " \o ToString(t.day) \o "th")
         \o (IF ~t.hasYr THEN ""
             ELSE IF t.form = "dm" THEN " " \o Pad(t.yr, 4)
             ELSE ", " \o Pad(t.yr, 4))
    [] t.kind = "num"    ->
         Pad(t.f[1][1], t.f[1][2]) \o t.sep \o Pad(t.f[2][1], t.f[2][2])
           \o t.sep \o Pad(t.f[3][1], t.f[3][2])
    [] t.kind = "rule"   ->
         RuleWord[t.rule] \o (IF t.rule \in RuleHasNumber THEN ToString(t.n) ELSE "")
    [] t.kind = "sem"    -> SemWord[t.pat]
    [] t.kind = "bullet" -> "-"
    [] t.kind = "word"   -> t.text

\* the text of a token sequence: the tokens separated by single spaces
RECURSIVE LineText(_)
LineText(toks) ==
  IF toks = <<>> THEN ""
  ELSE IF Len(toks) = 1 THEN TokText(toks[1])
  ELSE TokText(toks[1]) \o " " \o LineText(Tail(toks))

RECURSIVE SelectKind(_, _)
SelectKind(toks, kind) ==
  IF toks = <<>> THEN <<>>
  ELSE IF toks[1].kind = kind THEN <<toks[1]>> \o SelectKind(Tail(toks), kind)
  ELSE SelectKind(Tail(toks), kind)

(***************************************************************************)
(* Semester detection and line iteration                                   *)
(***************************************************************************)
SEMESTER_PATTERNS == <<"F", "S", "Y">>

\* detect_semester: the first pattern, in table order, found anywhere in the
\* text; "None" when no pattern is found
detect_semester(text) ==
  LET hit(p) == \E i \in 1..Len(text) : \E j \in 1..Len(text[i]) :
                   text[i][j].kind = "sem" /\ text[i][j].pat = p
  IN  IF \E p \in 1..3 : hit(p)
      THEN SEMESTER_PATTERNS[CHOOSE p \in 1..3 : hit(p) /\ \A q \in 1..(p - 1) : ~hit(q)]
      ELSE "None"

\* iter_lines: the stripped lines of the text that are not empty
RECURSIVE iter_lines(_)
iter_lines(text) ==
  IF text = <<>> THEN <<>>
  ELSE IF text[1] = <<>> THEN iter_lines(Tail(text))
  ELSE <<text[1]>> \o iter_lines(Tail(text))

(***************************************************************************)
(* Regular expressions                                                     *)
(***************************************************************************)
\* WEEK_RE = \b(?:week|wk)\s*(\d{1,2})\b : the week tokens of 1-2 digits
WEEK_RE_finditer(line) ==
  SelectSeq(SelectKind(line, "week"), LAMBDA t : t.n \in 0..99)

WEEK_RE_fullmatch(toks) ==
  Len(toks) = 1 /\ toks[1].kind = "week" /\ toks[1].n \in 0..99

\* MONTH\s*\d{1,2}(?:,\s*\d{4})? : month name, day, optional ", year"
BareDate_fullmatch(toks) ==
  Len(toks) = 1 /\ toks[1].kind = "abs" /\ toks[1].form = "md"
    /\ toks[1].day \in 0..99

ABS_RE_finditer(line) == SelectKind(line, "abs")

\* NUM_RE: D[D] sep D[D] sep YY[YY]  or  YYYY sep D[D] sep D[D]
NUM_RE_match(t) ==
  \/ t.f[1][2] \in 1..2 /\ t.f[2][2] \in 1..2 /\ t.f[3][2] \in 2..4
  \/ t.f[1][2] = 4 /\ t.f[2][2] \in 1..2 /\ t.f[3][2] \in 1..2

NUM_RE_finditer(line) == SelectSeq(SelectKind(line, "num"), NUM_RE_match)

(***************************************************************************)
(* Title heuristics                                                        *)
(***************************************************************************)
BACKSCAN_LINES == 3
LOOKAHEAD_LINES == 4
WEEKDAY_OFFSET == 0
TitleMax == 80
TitleKeep == 77
\* stands for the one-character ellipsis appended to a truncated title
ELLIPSIS == "~"

\* TITLE_RULES: the formatter of each rule, applied to the matching token
TITLE_RULES(t) ==
  CASE t.rule = 1 -> "Term Test " \o ToString(t.n)
    [] t.rule = 2 -> "Tutorial Quiz " \o ToString(t.n)
    [] t.rule = 3 -> "Tutorial Activity " \o ToString(t.n)
    [] t.rule = 4 -> "PCA " \o ToString(t.n) \o " due"
    [] t.rule = 5 -> "Syllabus Scavenger Hunt"
    [] t.rule = 6 -> "Assignment " \o ToString(t.n) \o " due"
    [] t.rule = 7 -> "Project " \o ToString(t.n) \o " due"
    [] t.rule = 8 -> "Midterm Exam"
    [] t.rule = 9 -> "Final Exam"

\* re.sub(r"^[bullets, dashes, spaces]+", "", line).strip()
RECURSIVE StripBullets(_)
StripBullets(toks) ==
  IF toks = <<>> THEN <<>>
  ELSE IF toks[1].kind = "bullet" THEN StripBullets(Tail(toks))
  ELSE toks

SmartTitleNoPlaceholder(line) ==
  LET rules == SelectKind(line, "rule")
      clean == StripBullets(line)
  IN  IF rules # <<>>
      THEN <<WordTok(TITLE_RULES(rules[1]))>>
      ELSE IF Len(LineText(clean)) > TitleMax
           THEN <<WordTok(SubSeq(LineText(clean), 1, TitleKeep) \o ELLIPSIS)>>
           ELSE clean

\* smart_title, as the token sequence of the returned title
SmartTitleToks(line) ==
  LET rules == SelectKind(line, "rule")
      clean == StripBullets(line)
  IN  IF rules # <<>>
      THEN LET r == CHOOSE k \in 1..9 :
                      /\ \E i \in 1..Len(rules) : rules[i].rule = k
                      /\ \A i \in 1..Len(rules) : rules[i].rule >= k
               m == SelectSeq(rules, LAMBDA t : t.rule = r)[1]
           IN  <<WordTok(TITLE_RULES(m))>>
      ELSE IF clean = <<>> THEN <<WordTok("Event")>>
      ELSE IF Len(LineText(clean)) > TitleMax
           THEN <<WordTok(SubSeq(LineText(clean), 1, TitleKeep) \o ELLIPSIS)>>
           ELSE clean

smart_title(line) == LineText(SmartTitleToks(line))

(***************************************************************************)
(* Date parsing                                                            *)
(***************************************************************************)
\* datetime.strptime(f"{month} {day} {yr}", "%b %d %Y").date(); NoDate stands
\* for the ValueError.  %Y needs exactly four digits, and yr is printed as an
\* int, without leading zeros.
Strptime_bdY(mon, day, yr) ==
  IF yr \in 1000..9999 /\ ValidDate(yr, mon, day) THEN MkDate(yr, mon, day)
  ELSE NoDate

\* d.replace(year=y); NoDate stands for the ValueError
ReplaceYear(dt, y) ==
  IF ValidDate(y, dt.m, dt.d) THEN MkDate(y, dt.m, dt.d) ELSE NoDate

\* whether month{i}/day{i} (or the unnumbered month/day) took part in the
\* match, at iteration i of the loop of _abs_date
AbsGroupsAt(t, i) ==
  CASE t.form = "md"   -> TRUE
    [] t.form = "dm"   -> i = 2
    [] t.form = "mdth" -> i = 3

RECURSIVE AbsDateFrom(_, _, _, _)
AbsDateFrom(t, i, year, start) ==
  IF i > 3 THEN NoDate
  ELSE IF ~AbsGroupsAt(t, i) THEN AbsDateFrom(t, i + 1, year, start)
  ELSE LET yr == IF t.hasYr THEN t.yr ELSE year
           dt == Strptime_bdY(t.mon, t.day, yr)
       IN  IF dt = NoDate THEN AbsDateFrom(t, i + 1, year, start)
           ELSE IF DateLT(dt, start) /\ start.m >= 8 /\ yr = 0
                THEN (IF ReplaceYear(dt, dt.y + 1) = NoDate
                      THEN AbsDateFrom(t, i + 1, year, start)
                      ELSE ReplaceYear(dt, dt.y + 1))
                ELSE dt

\* _abs_date(m, year, start); NoDate stands for None
abs_date(t, year, start) == AbsDateFrom(t, 1, year, start)

\* the formats tried for a numeric date, in order: separator and the
\* directive of each of the three fields
NumFormats ==
  << <<"/", <<"d", "m", "Y">> >>, <<"/", <<"m", "d", "Y">> >>,
     <<"/", <<"Y", "m", "d">> >>, <<"-", <<"d", "m", "Y">> >>,
     <<"-", <<"m", "d", "Y">> >>, <<"-", <<"Y", "m", "d">> >> >>

\* whether a run of n digits of value v matches strptime's directive
DirectiveMatches(dir, v, n) ==
  CASE dir = "d" -> n \in 1..2 /\ v \in 1..31
    [] dir = "m" -> n \in 1..2 /\ v \in 1..12
    [] dir = "Y" -> n = 4

\* datetime.strptime(m.group(0), fmt).date(); NoDate stands for ValueError
Strptime_num(t, fmt) ==
  LET dirs == fmt[2]
      fld(dir) == t.f[CHOOSE k \in 1..3 : dirs[k] = dir][1]
  IN  IF /\ t.sep = fmt[1]
         /\ \A k \in 1..3 : DirectiveMatches(dirs[k], t.f[k][1], t.f[k][2])
         /\ ValidDate(fld("Y"), fld("m"), fld("d"))
      THEN MkDate(fld("Y"), fld("m"), fld("d"))
      ELSE NoDate

\* the dates one NUM_RE match contributes to parse_dates: the first format
\* that parses, with a year below 100 moved to 2000 + year
NumDates(t) ==
  LET ok == {k \in 1..Len(NumFormats) : Strptime_num(t, NumFormats[k]) # NoDate}
  IN  IF ok = {} THEN <<>>
      ELSE LET k  == CHOOSE kk \in ok : \A j \in ok : kk <= j
               dt == Strptime_num(t, NumFormats[k])
           IN  IF dt.y < 100
               THEN (IF ReplaceYear(dt, 2000 + dt.y) = NoDate THEN <<>>
                     ELSE <<ReplaceYear(dt, 2000 + dt.y)>>)
               ELSE <<dt>>

RECURSIVE AbsDates(_, _)
AbsDates(ms, start) ==
  IF ms = <<>> THEN <<>>
  ELSE (IF abs_date(ms[1], start.y, start) = NoDate THEN <<>>
        ELSE <<abs_date(ms[1], start.y, start)>>) \o AbsDates(Tail(ms), start)

RECURSIVE NumDatesAll(_)
NumDatesAll(ms) ==
  IF ms = <<>> THEN <<>> ELSE NumDates(ms[1]) \o NumDatesAll(Tail(ms))

parse_dates(line, start) ==
  AbsDates(ABS_RE_finditer(line), start) \o NumDatesAll(NUM_RE_finditer(line))

(***************************************************************************)
(* Event extraction with bidirectional context                             *)
(***************************************************************************)
Reverse(s) == [i \in 1..Len(s) |-> s[Len(s) + 1 - i]]

\* the first line of ls whose smart_title is not a bare week label, or <<>>
RECURSIVE FirstCandidate(_)
FirstCandidate(ls) ==
  IF ls = <<>> THEN <<>>
  ELSE IF ~WEEK_RE_fullmatch(SmartTitleToks(ls[1])) THEN <<ls[1]>>
  ELSE FirstCandidate(Tail(ls))

contextual_title(raw, win, buf) ==
  LET title == SmartTitleToks(raw)
      back  == FirstCandidate(Reverse(win))
      fwd   == FirstCandidate(buf)
      keep  == IF LineText(title) = "" THEN "Event" ELSE LineText(title)
  IN  IF WEEK_RE_fullmatch(title) \/ BareDate_fullmatch(title)
      THEN (IF back # <<>> THEN smart_title(back[1])
            ELSE IF fwd # <<>> THEN smart_title(fwd[1])
            ELSE keep)
      ELSE keep

Evt(dt, t) == [date |-> dt, title |-> t]

WeekDateFromOne(st, n, off) == AddDays(st, 7 * n + off)

\* start + timedelta(weeks=int(m.group(1)) - 1, days=offset)
WeekDate(st, n, off) == AddDays(st, 7 * (n - 1) + off)

\* the (date, title) keys one line produces, absolute dates first
LineKeys(line, st, off, win, buf) ==
  LET t  == contextual_title(line, win, buf)
      ds == parse_dates(line, st)
      ws == WEEK_RE_finditer(line)
  IN  [i \in 1..Len(ds) |-> Evt(ds[i], t)]
        \o [i \in 1..Len(ws) |-> Evt(WeekDate(st, ws[i].n, off), t)]

\* "if key not in seen: evts.append(key); seen.add(key)", for each key
RECURSIVE AddKeys(_, _)
AddKeys(acc, keys) ==
  IF keys = <<>> THEN acc
  ELSE IF keys[1] \in acc.seen THEN AddKeys(acc, Tail(keys))
  ELSE AddKeys([evts |-> Append(acc.evts, keys[1]),
                seen |-> acc.seen \cup {keys[1]}], Tail(keys))

AdvanceWindowEarly(win, line) ==
  IF Len(win) + 1 >= BACKSCAN_LINES THEN Tail(Append(win, line))
  ELSE Append(win, line)

\* window.append(line); if len(window) > BACKSCAN_LINES: window.pop(0)
AdvanceWindow(win, line) ==
  IF Len(win) + 1 > BACKSCAN_LINES THEN Tail(Append(win, line))
  ELSE Append(win, line)

\* lines[idx + 1 : idx + 1 + LOOKAHEAD_LINES], idx counted from 0
Lookahead(ls, i) ==
  SubSeq(ls, i + 2, IF i + 1 + LOOKAHEAD_LINES < Len(ls)
                    THEN i + 1 + LOOKAHEAD_LINES ELSE Len(ls))

InRangeNoEnd(dt, st, en) == DateLE(st, dt)

\* start <= d <= end
InRange(dt, st, en) == DateLE(st, dt) /\ DateLE(dt, en)

\* the rows of the institutional calendar inside the range, as events
RECURSIVE UoftInRange(_, _, _)
UoftInRange(cal, st, en) ==
  IF cal = <<>> THEN <<>>
  ELSE (IF InRange(cal[1].date, st, en) THEN <<cal[1]>> ELSE <<>>)
         \o UoftInRange(Tail(cal), st, en)

UoftTitle(t) == "UofT: " \o t

(***************************************************************************)
(* Export helpers and table                                                *)
(***************************************************************************)
\* d.isoformat(): "YYYY-MM-DD"
IsoFormat(dt) == Pad(dt.y, 4) \o "-" \o Pad(dt.m, 2) \o "-" \o Pad(dt.d, 2)

\* code point order of the characters an ISO date is made of
CharRank(c) == IF c = "-" THEN 0 ELSE 1 + (CHOOSE v \in 0..9 : ToString(v) = c)

\* a < b for strings, character by character
RECURSIVE StrLT(_, _)
StrLT(a, b) ==
  IF b = "" THEN FALSE
  ELSE IF a = "" THEN TRUE
  ELSE IF SubSeq(a, 1, 1) = SubSeq(b, 1, 1)
       THEN StrLT(SubSeq(a, 2, Len(a)), SubSeq(b, 2, Len(b)))
       ELSE CharRank(SubSeq(a, 1, 1)) < CharRank(SubSeq(b, 1, 1))

Row(e) == [Date |-> IsoFormat(e.date), Event |-> e.title]

\* DataFrame.drop_duplicates(): the first occurrence of each row is kept
RECURSIVE DropDuplicates(_)
DropDuplicates(rows) ==
  IF rows = <<>> THEN <<>>
  ELSE LET init == DropDuplicates(SubSeq(rows, 1, Len(rows) - 1))
           last == rows[Len(rows)]
       IN  IF \E i \in 1..Len(init) : init[i] = last THEN init
           ELSE Append(init, last)

\* DataFrame.sort_values("Date"): ascending by the Date string
RECURSIVE InsertRow(_, _)
InsertRow(sorted, r) ==
  IF sorted = <<>> THEN <<r>>
  ELSE IF StrLT(r.Date, sorted[Len(sorted)].Date)
       THEN Append(InsertRow(SubSeq(sorted, 1, Len(sorted) - 1), r),
                   sorted[Len(sorted)])
       ELSE Append(sorted, r)

RECURSIVE SortValues(_)
SortValues(rows) ==
  IF rows = <<>> THEN <<>>
  ELSE InsertRow(SortValues(SubSeq(rows, 1, Len(rows) - 1)), rows[Len(rows)])

WidgetTitleMax == 40

\* one record of fc_events
FcEvent(r) ==
  [title |-> IF Len(r.Event) > WidgetTitleMax
             THEN SubSeq(r.Event, 1, WidgetTitleMax) \o ELLIPSIS
             ELSE r.Event,
   start |-> r.Date, allDay |-> TRUE, description |-> r.Event]

\* the entries make_ics writes: name "t or 'Event'", begin d.isoformat()
make_ics(es) ==
  [i \in 1..Len(es) |->
     [name |-> IF es[i].title = "" THEN "Event" ELSE es[i].title,
      begin |-> IsoFormat(es[i].date)]]

\* the body lines make_pdf writes after the heading: (date, "t or 'Event'")
make_pdf(es) ==
  [i \in 1..Len(es) |->
     [date |-> IsoFormat(es[i].date),
      text |-> IF es[i].title = "" THEN "Event" ELSE es[i].title]]

(***************************************************************************)
(* State                                                                   *)
(***************************************************************************)
VARIABLES
  text,       \* the cleaned document text: a sequence of lines
  start,      \* "Semester start"
  end,        \* "Semester end"
  offset,     \* the offset argument of extract_events
  pc,         \* position of the script
  lines,      \* extract_events: lines
  idx,        \* extract_events: number of lines already processed
  window,     \* extract_events: window
  buffer,     \* extract_events: buffer of the line being processed
  evts,       \* evts, inside extract_events and then in the script
  seen,       \* extract_events: seen
  df,         \* the table
  fc_events,  \* the records given to the calendar widget
  icsArg,     \* the list given to make_ics
  pdfArg,     \* the list given to make_pdf
  called      \* the collaborators invoked so far

vars == <<text, start, end, offset, pc, lines, idx, window, buffer, evts,
          seen, df, fc_events, icsArg, pdfArg, called>>

inputs == <<text, start, end, offset>>
outputs == <<df, fc_events, icsArg, pdfArg>>

(***************************************************************************)
(* Inputs                                                                  *)
(***************************************************************************)
MaxLines == 10     \* longest document of the context-window family
MaxShort == 3      \* longest document of the mixed-content family
MaxDoc == 3        \* longest document given to the whole script
MaxCal == 2        \* most rows of a fetched institutional calendar

L_week   == <<WeekTok("Week", 3)>>
L_jan    == <<AbsTok("md", 1, 15, FALSE, 0)>>
L_oct    == <<AbsTok("md", 10, 15, FALSE, 0)>>
L_quiz   == <<RuleTok(2, 2), WordTok("assigned")>>
L_bullet == <<BulletTok>>
L_blank  == <<>>
L_num2   == <<NumTok("-", 1, 1, 15, 2, 24, 2)>>
L_num4   == <<NumTok("/", 1, 2, 10, 2, 2024, 4), NumTok("/", 2, 2, 29, 2, 24, 4)>>
L_tt     == <<RuleTok(8, 0), RuleTok(1, 1), BulletTok, AbsTok("md", 10, 15, TRUE, 2024)>>
L_final  == <<BulletTok, RuleTok(9, 0), AbsTok("dm", 10, 12, FALSE, 0),
              AbsTok("mdth", 2, 30, FALSE, 0)>>
L_sem    == <<SemTok(1)>>
L_long   == <<WordTok("Reading and discussion of the assigned chapters"),
              WordTok("in the tutorial section of"), WeekTok("wk", 12),
              WeekTok("wk", 12)>>

WindowVocab  == {L_week, L_quiz}
ShortVocab   == {L_week, L_jan, L_quiz, L_bullet, L_blank, L_num2, L_num4,
                 L_tt, L_final, L_sem, L_long}
ScriptVocab  == {L_week, L_oct, L_quiz, L_sem, L_blank}

Docs(vocab, n) == UNION {[1..k -> vocab] : k \in 0..n}

S_fall   == MkDate(2024, 9, 2)
S_winter == MkDate(2025, 1, 6)
E_fall   == MkDate(2024, 12, 20)
E_winter == MkDate(2025, 4, 30)
Starts  == {S_fall, S_winter}
Ends    == {E_fall, E_winter}
Offsets == {0, 2}

\* rows of the institutional calendar, as fetch_uoft_calendar returns them
CalRows == {Evt(MkDate(2024, 10, 14), "Thanksgiving"),
            Evt(MkDate(2024, 9, 16), "Tutorial Quiz 2"),
            Evt(MkDate(2025, 6, 10), "")}
Calendars == Docs(CalRows, MaxCal)

Start0 ==
  /\ pc = "start"
  /\ lines = <<>> /\ idx = 0 /\ window = <<>> /\ buffer = <<>>
  /\ evts = <<>> /\ seen = {}
  /\ df = <<>> /\ fc_events = <<>> /\ icsArg = <<>> /\ pdfArg = <<>>
  /\ called = {}

\* the script, once a file is uploaded: extract_events is called with
\* WEEKDAY_OFFSET
Init ==
  /\ text \in Docs(ScriptVocab, MaxDoc)
  /\ start \in Starts /\ end \in Ends
  /\ offset = WEEKDAY_OFFSET
  /\ Start0

\* extract_events on its own, for any offset argument
InitExtract ==
  /\ text \in Docs(WindowVocab, MaxLines) \cup Docs(ShortVocab, MaxShort)
  /\ start \in Starts /\ end = E_fall
  /\ offset \in Offsets
  /\ Start0

(***************************************************************************)
(* extract_events                                                          *)
(***************************************************************************)
\* lines 178-191: the locals, the semester detection and the calendar rows
ExtractBegin ==
  /\ pc = "start"
  /\ lines' = iter_lines(text)
  /\ window' = <<>> /\ idx' = 0 /\ buffer' = <<>>
  /\ IF detect_semester(text) # "None"
     THEN \E cal \in Calendars :
            LET rows == UoftInRange(cal, start, end)
            IN  /\ evts' = [i \in 1..Len(rows) |->
                              Evt(rows[i].date, UoftTitle(rows[i].title))]
                /\ seen' = {rows[i] : i \in 1..Len(rows)}
                /\ called' = called \cup {"st.info", "fetch_uoft_calendar"}
     ELSE evts' = <<>> /\ seen' = {} /\ called' = called
  /\ pc' = "loop"
  /\ UNCHANGED <<inputs, outputs>>

\* lines 193-194: the next line is taken and its look-ahead buffer is cut
LoopHead ==
  /\ pc = "loop" /\ idx < Len(lines)
  /\ buffer' = Lookahead(lines, idx)
  /\ pc' = "body"
  /\ UNCHANGED <<inputs, outputs, lines, idx, window, evts, seen, called>>

\* lines 210-227: the events of the line, then the window advances
LoopBody ==
  /\ pc = "body"
  /\ LET line == lines[idx + 1]
         acc  == AddKeys([evts |-> evts, seen |-> seen],
                         LineKeys(line, start, offset, window, buffer))
     IN  /\ evts' = acc.evts
         /\ seen' = acc.seen
         /\ window' = AdvanceWindow(window, line)
  /\ idx' = idx + 1
  /\ pc' = "loop"
  /\ UNCHANGED <<inputs, outputs, lines, buffer, called>>

\* line 228, extract_events called on its own
Return ==
  /\ pc = "loop" /\ idx = Len(lines)
  /\ pc' = "returned"
  /\ UNCHANGED <<inputs, outputs, lines, idx, window, buffer, evts, seen, called>>

(***************************************************************************)
(* The script                                                              *)
(***************************************************************************)
\* keeps the events inside [start, end], in order
RECURSIVE FilterRange(_, _, _)
FilterRange(es, st, en) ==
  IF es = <<>> THEN <<>>
  ELSE (IF InRange(es[1].date, st, en) THEN <<es[1]>> ELSE <<>>)
         \o FilterRange(Tail(es), st, en)

\* line 275: extract_events returns and its result is filtered
Filter ==
  /\ pc = "loop" /\ idx = Len(lines)
  /\ evts' = FilterRange(evts, start, end)
  /\ pc' = "filtered"
  /\ UNCHANGED <<inputs, outputs, lines, idx, window, buffer, seen, called>>

NoEventsInverted(es) == es # <<>>

\* "if not evts"
NoEvents(es) == es = <<>>

\* lines 276-278: st.warning and st.stop
Stop ==
  /\ pc = "filtered" /\ NoEvents(evts)
  /\ called' = called \cup {"st.warning", "st.stop"}
  /\ pc' = "stopped"
  /\ UNCHANGED <<inputs, outputs, lines, idx, window, buffer, evts, seen>>

\* lines 280-284: the institutional calendar is fetched and appended
MergeUofT ==
  /\ pc = "filtered" /\ ~NoEvents(evts)
  /\ \E cal \in Calendars :
       LET rows == UoftInRange(cal, start, end)
       IN  evts' = evts \o [i \in 1..Len(rows) |->
                              Evt(rows[i].date, UoftTitle(rows[i].title))]
  /\ called' = called \cup {"fetch_uoft_calendar@merge"}
  /\ pc' = "merged"
  /\ UNCHANGED <<inputs, outputs, lines, idx, window, buffer, seen>>

\* lines 286-293: the table
BuildTable ==
  /\ pc = "merged"
  /\ df' = SortValues(DropDuplicates([i \in 1..Len(evts) |-> Row(evts[i])]))
  /\ called' = called \cup {"st.dataframe"}
  /\ pc' = "table"
  /\ UNCHANGED <<inputs, fc_events, icsArg, pdfArg, lines, idx, window,
                 buffer, evts, seen>>

\* lines 295-318: the calendar widget
Render ==
  /\ pc = "table"
  /\ fc_events' = [i \in 1..Len(df) |-> FcEvent(df[i])]
  /\ called' = called \cup {"calendar"}
  /\ pc' = "rendered"
  /\ UNCHANGED <<inputs, df, icsArg, pdfArg, lines, idx, window, buffer,
                 evts, seen>>

\* line 322
MakeIcs ==
  /\ pc = "rendered"
  /\ icsArg' = evts
  /\ called' = called \cup {"make_ics"}
  /\ pc' = "ics"
  /\ UNCHANGED <<inputs, df, fc_events, pdfArg, lines, idx, window, buffer,
                 evts, seen>>

\* line 324
MakePdf ==
  /\ pc = "ics"
  /\ pdfArg' = evts
  /\ called' = called \cup {"make_pdf"}
  /\ pc' = "done"
  /\ UNCHANGED <<inputs, df, fc_events, icsArg, lines, idx, window, buffer,
                 evts, seen>>

Next ==
  \/ ExtractBegin \/ LoopHead \/ LoopBody \/ Filter \/ Stop
  \/ MergeUofT \/ BuildTable \/ Render \/ MakeIcs \/ MakePdf

Spec == Init /\ [][Next]_vars

NextExtract == ExtractBegin \/ LoopHead \/ LoopBody \/ Return

SpecExtract == InitExtract /\ [][NextExtract]_vars

(***************************************************************************)
(* Properties                                                              *)
(***************************************************************************)
AfterFilter == {"filtered", "stopped", "merged", "table", "rendered", "ics", "done"}
InExtract == {"loop", "body", "returned"}

\* the number a run of decimal digits denotes
RECURSIVE DigitsValue(_)
DigitsValue(str) ==
  IF str = "" THEN 0
  ELSE 10 * DigitsValue(SubSeq(str, 1, Len(str) - 1))
         + (CHOOSE v \in 0..9 : ToString(v) = SubSeq(str, Len(str), Len(str)))

\* the date an ISO string "YYYY-MM-DD" denotes
IsoDate(str) ==
  MkDate(DigitsValue(SubSeq(str, 1, 4)), DigitsValue(SubSeq(str, 6, 7)),
         DigitsValue(SubSeq(str, 9, 10)))

\* the (date, title) pairs of the records the calendar widget received
WidgetPairs == [i \in 1..Len(fc_events) |->
                  Evt(IsoDate(fc_events[i].start), fc_events[i].description)]

NoDuplicateKey(es) ==
  \A i, j \in 1..Len(es) :
    (es[i].date = es[j].date /\ es[i].title = es[j].title) => i = j

NonDecreasing(es) ==
  \A i \in 1..(Len(es) - 1) : ToOrdinal(es[i].date) <= ToOrdinal(es[i + 1].date)

WithinRange(es) ==
  \A i \in 1..Len(es) :
    /\ ToOrdinal(start) <= ToOrdinal(es[i].date)
    /\ ToOrdinal(es[i].date) <= ToOrdinal(end)

HasPrefix(str, pre) == Len(str) >= Len(pre) /\ SubSeq(str, 1, Len(pre)) = pre

\* C1: no sequence handed to a collaborator (make_ics, make_pdf, the calendar
\* widget) holds two entries with the same date and the same title.
C1_NoDuplicatesHandedOver ==
  /\ NoDuplicateKey(icsArg)
  /\ NoDuplicateKey(pdfArg)
  /\ NoDuplicateKey(WidgetPairs)

\* C2: every sequence handed to a collaborator is non-decreasing by date.
C2_SortedHandedOver ==
  /\ NonDecreasing(icsArg)
  /\ NonDecreasing(pdfArg)
  /\ NonDecreasing(WidgetPairs)

\* the date the year-inference rule of the specification gives a textual date
InferredDate(t, st) ==
  LET d0 == MkDate(IF t.hasYr THEN t.yr ELSE st.y, t.mon, t.day)
  IN  IF ~t.hasYr /\ ToOrdinal(d0) < ToOrdinal(st) /\ st.m >= 8
      THEN MkDate(d0.y + 1, d0.m, d0.d)
      ELSE d0

\* C3: a textual date without a year takes the start date's year and, when
\* that falls before a start date in August or later, the next year; a date
\* with a year keeps it.  Every processed line's textual dates appear in evts
\* with exactly that date.
C3_YearInference ==
  pc \in InExtract =>
    \A i \in 1..idx : \A j \in 1..Len(lines[i]) :
      LET t == lines[i][j]
      IN  (t.kind = "abs" /\ (t.hasYr => t.yr \in 1000..9999)
             /\ ValidDate(IF t.hasYr THEN t.yr ELSE start.y, t.mon, t.day)
             /\ ValidDate(InferredDate(t, start).y, t.mon, t.day))
          => \E k \in 1..Len(evts) : evts[k].date = InferredDate(t, start)

\* the classification the specification calls uninformative
Uninformative(toks) == WEEK_RE_fullmatch(toks) \/ BareDate_fullmatch(toks)

\* the first line of ls whose classification is informative, or <<>>
RECURSIVE FirstInformative(_)
FirstInformative(ls) ==
  IF ls = <<>> THEN <<>>
  ELSE IF ~Uninformative(SmartTitleToks(ls[1])) THEN <<ls[1]>>
  ELSE FirstInformative(Tail(ls))

\* the title the Contextual Resolver of the specification gives a line
ResolvedTitle(line, win, buf) ==
  LET back == FirstInformative([i \in 1..Len(win) |-> win[Len(win) + 1 - i]])
      fwd  == FirstInformative(buf)
  IN  IF ~Uninformative(SmartTitleToks(line)) THEN smart_title(line)
      ELSE IF back # <<>> THEN smart_title(back[1])
      ELSE IF fwd # <<>> THEN smart_title(fwd[1])
      ELSE smart_title(line)

\* C4: the events a line adds carry the title of the specification's
\* resolver: for an uninformative line, the nearest preceding window line
\* that is neither a bare week label nor a bare date, else the first such
\* following line, else the original title.
C4_ContextualTitle ==
  [][pc = "body" =>
       \A k \in (Len(evts) + 1)..Len(evts') :
         evts'[k].title = ResolvedTitle(lines[idx + 1], window, buffer)]_vars

\* C5: once filtered, every event the script holds, tabulates or hands over
\* lies within [start, end].
C5_RangeInvariant ==
  pc \in AfterFilter =>
    /\ WithinRange(evts)
    /\ WithinRange([i \in 1..Len(df) |-> Evt(IsoDate(df[i].Date), df[i].Event)])
    /\ WithinRange(WidgetPairs)
    /\ WithinRange(icsArg)
    /\ WithinRange(pdfArg)

C5_Witness ==
  /\ pc = "done"
  /\ \E i, j \in 1..Len(pdfArg) :
       HasPrefix(pdfArg[i].title, "UofT: ") /\ ~HasPrefix(pdfArg[j].title, "UofT: ")
  /\ \E i \in 1..Len(lines) : parse_dates(lines[i], start) # <<>>
  /\ Len(fc_events) >= 2

\* C6: every week mention of a processed line has an event exactly
\* (N - 1) weeks plus offset days after start; and "Quiz 2 assigned" followed
\* by "Week 3", from 2024-09-02 with offset 0, gives the single event
\* (2024-09-16, "Tutorial Quiz 2").
C6_WeekDates ==
  /\ pc \in InExtract =>
       \A i \in 1..idx : \A j \in 1..Len(lines[i]) :
         (lines[i][j].kind = "week" /\ lines[i][j].n \in 0..99) =>
           \E k \in 1..Len(evts) :
             /\ ValidDate(evts[k].date.y, evts[k].date.m, evts[k].date.d)
             /\ ToOrdinal(evts[k].date)
                  = ToOrdinal(start) + 7 * (lines[i][j].n - 1) + offset
  /\ (pc = "returned" /\ text = <<L_quiz, L_week>> /\ start = MkDate(2024, 9, 2)
        /\ offset = 0)
       => evts = <<Evt(MkDate(2024, 9, 16), "Tutorial Quiz 2")>>

C6_Witness ==
  /\ pc = "returned" /\ text = <<L_quiz, L_week>>
  /\ start = MkDate(2024, 9, 2) /\ offset = 0
  /\ Len(evts) = 1

\* C7: a numeric date written with a two-digit year (and a month and a day
\* that form a date) yields an event in the year 2000 + YY.
C7_TwoDigitYear ==
  pc \in InExtract =>
    \A i \in 1..idx : \A j \in 1..Len(lines[i]) :
      LET t == lines[i][j]
      IN  (/\ t.kind = "num" /\ t.f[3][2] = 2
           /\ t.f[1][2] \in 1..2 /\ t.f[2][2] \in 1..2
           /\ \/ ValidDate(2000 + t.f[3][1], t.f[1][1], t.f[2][1])
              \/ ValidDate(2000 + t.f[3][1], t.f[2][1], t.f[1][1]))
          => \E k \in 1..Len(evts) : evts[k].date.y = 2000 + t.f[3][1]

\* C8: every event of extract_events has a non-empty title, and smart_title
\* is non-empty on every line extract_events iterates over.
C8_TitleNonEmpty ==
  /\ \A k \in 1..Len(evts) : Len(evts[k].title) > 0
  /\ \A i \in 1..Len(lines) : Len(smart_title(lines[i])) > 0

C8_Witness ==
  /\ pc = "returned"
  /\ \E k \in 1..Len(evts) : evts[k].title = "Event"
  /\ \E k \in 1..Len(evts) : Len(evts[k].title) = TitleKeep + 1
  /\ \E i \in 1..Len(lines) : lines[i] = L_bullet

Downstream ==
  {"fetch_uoft_calendar@merge", "st.dataframe", "calendar", "make_ics", "make_pdf"}

\* C9: when no event survives the range filter the script goes to the
\* no-events state, where nothing downstream has run, and it never leaves it.
C9_NoEventsHalts ==
  /\ [][(pc = "filtered" /\ evts = <<>>) => pc' = "stopped"]_vars
  /\ [](pc = "stopped" =>
          /\ called \cap Downstream = {}
          /\ df = <<>> /\ fc_events = <<>> /\ icsArg = <<>> /\ pdfArg = <<>>)
  /\ [][pc # "stopped"]_vars

C9_Witness ==
  /\ pc = "stopped" /\ "st.warning" \in called
  /\ \E i \in 1..Len(lines) : parse_dates(lines[i], start) # <<>>

\* positions lo..hi of ls (1-based, empty when lo > hi)
Slice(ls, lo, hi) == [k \in 1..(IF hi >= lo THEN hi - lo + 1 ELSE 0) |-> ls[lo + k - 1]]

Max(a, b) == IF a >= b THEN a ELSE b
Min(a, b) == IF a <= b THEN a ELSE b

\* C10: while line i (0-based) is processed the window is lines
\* max(0, i-3)..i-1 and the buffer is lines i+1..min(i+4, last); a line
\* without date or week candidates leaves evts and seen alone and still
\* enters the window.
C10_Windows ==
  /\ [](pc = "body" =>
          /\ window = Slice(lines, Max(1, idx - 2), idx)
          /\ buffer = Slice(lines, idx + 2, Min(idx + 5, Len(lines)))
          /\ Len(window) <= 3)
  /\ [][(pc = "body" /\ parse_dates(lines[idx + 1], start) = <<>>
           /\ \A j \in 1..Len(lines[idx + 1]) : lines[idx + 1][j].kind # "week")
        => /\ evts' = evts /\ seen' = seen
           /\ window' = Slice(lines, Max(1, idx - 1), idx + 1)]_vars

C10_Witness ==
  /\ pc = "body" /\ idx = 4 /\ Len(lines) = 10
  /\ Len(window) = 3 /\ Len(buffer) = 4
  /\ lines[5] = L_quiz
=============================================================================
